---------------------------- MODULE Spec2Model ----------------------------
(***************************************************************************)
(* Model of the chapter segmentation engine of duanzh                      *)
(* (src/src/services/chapterizer.rs): identify_chapters_by_regex (the      *)
(* Position Indexer, Marker Matcher and Segmenter) and                     *)
(* validate_chapters_with_llm (the Boundary Refiner, Pass A and Pass B).   *)
(*                                                                         *)
(* A text is a sequence of characters.  Every character is a one-character *)
(* string, except the two CJK ideographs, which are named by their code    *)
(* point and are three bytes long in UTF-8.  Offsets are byte offsets, as  *)
(* in the code (str::len, as_bytes, slicing).                              *)
(***************************************************************************)
EXTENDS Integers, Sequences, FiniteSets, TLC

LF == "\n"
CR == "\r"
DI == "U+7B2C"
ZHANG == "U+7AE0"

\* The characters documents are drawn from.  Of the twenty heading patterns
\* only those whose literal characters all lie in this alphabet can match.
Alphabet == {"#", " ", "a", "b", "1", LF, CR, DI, ZHANG}

\* ------------------------------------------------------------------ text

\* UTF-8 length of one character.
Utf8Len(c) == IF c \in {DI, ZHANG} THEN 3 ELSE 1

\* str::len: the length of a text in bytes.
RECURSIVE ByteLen(_)
ByteLen(s) == IF s = <<>> THEN 0 ELSE Utf8Len(Head(s)) + ByteLen(Tail(s))

\* char::is_whitespace, and the regex class \s, on the alphabet.
IsWhitespace(c) == c \in {" ", LF, CR}

\* The regex class \d on the alphabet.
IsDigit(c) == c \in {"0", "1", "2", "3", "4", "5", "6", "7", "8", "9"}

SetMin(S) == CHOOSE m \in S : \A o \in S : m <= o
SetMax(S) == CHOOSE m \in S : \A o \in S : m >= o

\* str::trim: leading and trailing whitespace removed.
Trim(s) ==
    LET keep == {i \in 1..Len(s) : ~IsWhitespace(s[i])}
    IN  IF keep = {} THEN <<>> ELSE SubSeq(s, SetMin(keep), SetMax(keep))

\* str::split_inclusive('\n'): the pieces of s, each ending with its "\n",
\* the last one possibly without.
RECURSIVE SplitInclusive(_)
SplitInclusive(s) ==
    IF s = <<>> THEN <<>>
    ELSE LET lfs == {i \in 1..Len(s) : s[i] = LF}
         IN  IF lfs = {} THEN <<s>>
             ELSE <<SubSeq(s, 1, SetMin(lfs))>>
                  \o SplitInclusive(SubSeq(s, SetMin(lfs) + 1, Len(s)))

\* One line of str::lines: a final "\n" is stripped and then, only if a "\n"
\* was stripped, one "\r" before it (a "\r" that ends the text stays).
StripLineEnding(piece) ==
    IF piece # <<>> /\ piece[Len(piece)] = LF
    THEN LET l == SubSeq(piece, 1, Len(piece) - 1)
         IN  IF l # <<>> /\ l[Len(l)] = CR THEN SubSeq(l, 1, Len(l) - 1) ELSE l
    ELSE piece

\* text.lines().collect()
Lines(text) ==
    LET pieces == SplitInclusive(text)
    IN  [k \in 1..Len(pieces) |-> StripLineEnding(pieces[k])]

\* The character index (1-based) of the character that starts at byte offset
\* off, Len(text) + 1 for the end of the text, 0 when off is inside a
\* multi-byte character or beyond the end (str::is_char_boundary is false).
CharIndexAt(text, off) ==
    LET at == {j \in 1..(Len(text) + 1) : ByteLen(SubSeq(text, 1, j - 1)) = off}
    IN  IF at = {} THEN 0 ELSE SetMin(at)

IsCharBoundary(text, off) == CharIndexAt(text, off) # 0

\* text.as_bytes()[off] as far as the code looks at it: the character when a
\* one-byte character starts at off, "other" for a byte of a multi-byte one
\* (never '\n' or '\r').
ByteAt(text, off) ==
    LET j == CharIndexAt(text, off)
    IN  IF j # 0 /\ j <= Len(text) /\ Utf8Len(text[j]) = 1 THEN text[j] ELSE "other"

\* &text[from..to], for offsets that are character boundaries.
Slice(text, from, to) ==
    SubSeq(text, CharIndexAt(text, from), CharIndexAt(text, to) - 1)

\* -------------------------------------------------------- Marker Matcher

\* The first index >= i of t that is not whitespace (Len(t) + 1 if none).
SkipWs(t, i) ==
    SetMin({j \in i..(Len(t) + 1) : j = Len(t) + 1 \/ ~IsWhitespace(t[j])})

\* The first index >= i of t that is not a digit (Len(t) + 1 if none).
SkipDigits(t, i) ==
    SetMin({j \in i..(Len(t) + 1) : j = Len(t) + 1 \/ ~IsDigit(t[j])})

NoMatch == [matched |-> FALSE, groups |-> <<>>]
Match(gs) == [matched |-> TRUE, groups |-> gs]

\* ^\s*#{hashes}\s+([^#].*)$ on a trimmed line t: `hashes` '#', at least one
\* whitespace, then the group, which starts at the first non-whitespace
\* character unless that is '#', in which case the greedy \s+ gives back its
\* last whitespace character to [^#].
MarkdownHeading(t, hashes) ==
    LET w == hashes + 1
        e == SkipWs(t, w)
    IN  IF /\ Len(t) >= w
           /\ \A k \in 1..hashes : t[k] = "#"
           /\ IsWhitespace(t[w])
        THEN IF e <= Len(t) /\ t[e] # "#"
             THEN Match(<<SubSeq(t, e, Len(t))>>)
             ELSE IF e - 1 > w
                  THEN Match(<<SubSeq(t, e - 1, Len(t))>>)
                  ELSE NoMatch
        ELSE NoMatch

\* ^DI\s*(\d+)\s*ZHANG\s*(.*)$ (pattern 11, DI and ZHANG the ideographs
\* U+7B2C and U+7AE0) on a trimmed line t.
DiZhangHeading(t) ==
    IF Len(t) >= 1 /\ t[1] = DI
    THEN LET b == SkipWs(t, 2)
             c == SkipDigits(t, b)
             d == SkipWs(t, c)
         IN  IF c > b /\ d <= Len(t) /\ t[d] = ZHANG
             THEN Match(<<SubSeq(t, b, c - 1),
                          SubSeq(t, SkipWs(t, d + 1), Len(t))>>)
             ELSE NoMatch
    ELSE NoMatch

\* The {1,50} repetition bound of the "title before the marker" pattern.
TitleBeforeMax == 50

\* ^\s*([^\r\n]{1,50})\s*DI\s*(\d+)\s*ZHANG\s*$ (pattern 20) on a trimmed
\* line t: the line ends with DI \s* digits \s* ZHANG, which starts at the
\* last DI of the line; the first group is the longest prefix of at most 50
\* characters without '\r' and '\n' that leaves only whitespace before that
\* DI.
TitleBeforeHeading(t) ==
    LET dis == {j \in 1..Len(t) : t[j] = DI}
    IN  IF dis = {} THEN NoMatch
        ELSE LET p == SetMax(dis)
                 b == SkipWs(t, p + 1)
                 c == SkipDigits(t, b)
                 d == SkipWs(t, c)
                 qs == {q \in 1..(p - 1) :
                          /\ q <= TitleBeforeMax
                          /\ \A k \in 1..q : t[k] \notin {CR, LF}
                          /\ \A k \in (q + 1)..(p - 1) : IsWhitespace(t[k])}
             IN  IF c > b /\ d = Len(t) /\ t[d] = ZHANG /\ qs # {}
                 THEN Match(<<SubSeq(t, 1, SetMax(qs)), SubSeq(t, b, c - 1)>>)
                 ELSE NoMatch

\* The number of heading patterns, in priority order.
NumPatterns == 20

\* regex.captures(t) for the p-th pattern of `patterns`, t a trimmed line.
\* Patterns 1-6 and 19 need the letters of "chapter", "chap", "section" or
\* "part", 9 and 10 need '.', 12-18 need a CJK numeral or one of the
\* ideographs U+8282, U+56DE, U+8BDD: none of them can match a line over
\* Alphabet.
Captures(p, t) ==
    CASE p = 7  -> MarkdownHeading(t, 1)
      [] p = 8  -> MarkdownHeading(t, 2)
      [] p = 11 -> DiZhangHeading(t)
      [] p = 20 -> TitleBeforeHeading(t)
      [] OTHER  -> NoMatch

ChapterPrefix == <<"C", "h", "a", "p", "t", "e", "r", " ">>
CompleteText == <<"C", "o", "m", "p", "l", "e", "t", "e", " ", "T", "e", "x", "t">>

\* The chapter title derived from a match: the trimmed second group when it
\* is not empty, else "Chapter " and the trimmed first group, else the
\* trimmed line.
ChapterTitle(line, caps) ==
    LET n == Len(caps.groups)
    IN  IF n + 1 > 1
        THEN IF n >= 2
             THEN LET title == Trim(caps.groups[2])
                  IN  IF title = <<>>
                      THEN IF n >= 1
                           THEN ChapterPrefix \o Trim(caps.groups[1])
                           ELSE Trim(line)
                      ELSE title
             ELSE IF n >= 1
                  THEN ChapterPrefix \o Trim(caps.groups[1])
                  ELSE Trim(line)
        ELSE Trim(line)

\* Compiles, if no pattern were valid for the regex engine.
CompilesNone(p) == FALSE

\* Regex::new(pattern).ok(): each of the twenty patterns is valid for the
\* regex engine.
Compiles(p) == TRUE

\* regexes: the patterns that compiled, in priority order.
Regexes == {p \in 1..NumPatterns : Compiles(p)}

\* Mutant of FirstMatch: the last pattern that matches is taken.
FirstMatchLast(line) ==
    LET ms == {p \in Regexes : Captures(p, Trim(line)).matched}
    IN  IF ms = {} THEN 0 ELSE SetMax(ms)

\* The first compiled pattern, in priority order, that matches the trimmed
\* line; 0 when none does.
FirstMatch(line) ==
    LET ms == {p \in Regexes : Captures(p, Trim(line)).matched}
    IN  IF ms = {} THEN 0 ELSE SetMin(ms)

\* ------------------------------------------- Position Indexer, Segmenter

\* Mutant of LineSeparatorLen: the newline between lines is never counted.
LineSeparatorLenNone(idx, n) == 0

\* What the scanning loop adds to cumulative_pos after the line with 0-based
\* index idx of n lines: one byte for the newline, except after the last.
LineSeparatorLen(idx, n) == IF idx < n - 1 THEN 1 ELSE 0

\* cumulative_pos when the scanning loop reaches the k-th line (1-based): the
\* running total of the earlier lines' byte lengths and separators.
RECURSIVE CumulativePos(_, _)
CumulativePos(lines, k) ==
    IF k = 1 THEN 0
    ELSE CumulativePos(lines, k - 1) + ByteLen(lines[k - 1])
         + LineSeparatorLen(k - 2, Len(lines))

\* (line_start_pos, line_end_pos) of every line, as the scanning loop
\* computes them.
LinePositions(lines) ==
    [k \in 1..Len(lines) |->
        [start |-> CumulativePos(lines, k),
         end   |-> CumulativePos(lines, k) + ByteLen(lines[k])]]

RECURSIVE OrderedSeq(_)
OrderedSeq(S) ==
    IF S = {} THEN <<>> ELSE <<SetMin(S)>> \o OrderedSeq(S \ {SetMin(S)})

\* chapter_positions: for every line that matches a pattern, in line order,
\* its offsets and the title derived from the first pattern that matches.
ChapterPositions(lines) ==
    LET pos  == LinePositions(lines)
        hits == OrderedSeq({k \in 1..Len(lines) : FirstMatch(lines[k]) # 0})
    IN  [m \in 1..Len(hits) |->
            LET k == hits[m]
            IN  [start |-> pos[k].start,
                 end   |-> pos[k].end,
                 line  |-> k,
                 title |-> ChapterTitle(lines[k],
                               Captures(FirstMatch(lines[k]), Trim(lines[k])))]]

\* content_start for a marker that ends at marker_end: one "\n", one "\r\n"
\* or one lone "\r" at that offset is skipped.
ContentStart(text, marker_end) ==
    IF marker_end < ByteLen(text) /\ ByteAt(text, marker_end) \in {LF, CR}
    THEN IF /\ ByteAt(text, marker_end) = CR
            /\ marker_end + 1 < ByteLen(text)
            /\ ByteAt(text, marker_end + 1) = LF
         THEN marker_end + 2
         ELSE marker_end + 1
    ELSE marker_end

\* Mutant of ContentEnd: every chapter runs to the end of the text.
ContentEndOfText(text, markers, i) == ByteLen(text)

\* content_end for the i-th marker: the start of the next marker's line, or
\* the end of the text for the last marker.
ContentEnd(text, markers, i) ==
    IF i - 1 < Len(markers) - 1 THEN markers[i + 1].start ELSE ByteLen(text)

\* Whether slicing the i-th marker's span panics: the span is not empty and
\* one of its ends is not a character boundary.
SlicePanics(text, markers, i) ==
    LET from == ContentStart(text, markers[i].end)
        to   == ContentEnd(text, markers, i)
    IN  to > from /\ ~(IsCharBoundary(text, from) /\ IsCharBoundary(text, to))

\* Mutant of BuildChapters: a span that is empty after trimming still pushes
\* a chapter.
RECURSIVE BuildChaptersKeepBlank(_, _, _)
BuildChaptersKeepBlank(text, markers, i) ==
    IF i > Len(markers) THEN <<>>
    ELSE LET from == ContentStart(text, markers[i].end)
             to   == ContentEnd(text, markers, i)
             rest == BuildChaptersKeepBlank(text, markers, i + 1)
         IN  IF to > from
             THEN <<[title |-> markers[i].title,
                     content |-> Trim(Slice(text, from, to)),
                     start_pos |-> from, end_pos |-> to]>> \o rest
             ELSE rest

\* The chapters pushed for markers i.. of the list, in order: a marker whose
\* span is empty, or empty after trimming, pushes none.
RECURSIVE BuildChapters(_, _, _)
BuildChapters(text, markers, i) ==
    IF i > Len(markers) THEN <<>>
    ELSE LET from == ContentStart(text, markers[i].end)
             to   == ContentEnd(text, markers, i)
             content == IF to > from THEN Trim(Slice(text, from, to)) ELSE <<>>
             rest == BuildChapters(text, markers, i + 1)
         IN  IF content # <<>>
             THEN <<[title |-> markers[i].title, content |-> content,
                     start_pos |-> from, end_pos |-> to]>> \o rest
             ELSE rest

\* Mutant of WholeText: the fallback chapter's content is trimmed.
WholeTextTrimmed(text) ==
    <<[title |-> CompleteText, content |-> Trim(text),
       start_pos |-> 0, end_pos |-> ByteLen(text)]>>

\* The single chapter holding the whole text.
WholeText(text) ==
    <<[title |-> CompleteText, content |-> text,
       start_pos |-> 0, end_pos |-> ByteLen(text)]>>

\* Mutant of IdentifyChaptersByRegex: the list built from the markers is
\* returned also when it is empty.
IdentifyNoFallback(text) ==
    LET markers == ChapterPositions(Lines(text))
    IN  IF Regexes = {} \/ markers = <<>>
        THEN [panic |-> FALSE, chapters |-> WholeText(text)]
        ELSE IF \E i \in 1..Len(markers) : SlicePanics(text, markers, i)
             THEN [panic |-> TRUE, chapters |-> <<>>]
             ELSE [panic |-> FALSE, chapters |-> BuildChapters(text, markers, 1)]

\* identify_chapters_by_regex(text): the chapter list, or a panic.
IdentifyChaptersByRegex(text) ==
    LET markers == ChapterPositions(Lines(text))
    IN  IF Regexes = {} \/ markers = <<>>
        THEN [panic |-> FALSE, chapters |-> WholeText(text)]
        ELSE IF \E i \in 1..Len(markers) : SlicePanics(text, markers, i)
             THEN [panic |-> TRUE, chapters |-> <<>>]
             ELSE LET chapters == BuildChapters(text, markers, 1)
                  IN  IF chapters = <<>>
                      THEN [panic |-> FALSE, chapters |-> WholeText(text)]
                      ELSE [panic |-> FALSE, chapters |-> chapters]

\* ------------------------------------------------------ segment validator

\* Option<String>: <<>> is None, <<t>> is Some(t).
None == <<>>
Some(t) == <<t>>

\* The titles the validator suggests.
SuggestedTitles == {<<"T">>}

\* Result<LLMResponse> of validate_chapter and compare_adjacent_chapters: Err
\* when the request or the reading of its body fails, else the decoded
\* response (the default, valid and without a title, when it does not parse).
Err == [ok |-> FALSE, is_valid |-> FALSE, suggested_title |-> None]
Ok(valid, title) == [ok |-> TRUE, is_valid |-> valid, suggested_title |-> title]
Responses ==
    {Err} \cup {Ok(v, t) : v \in BOOLEAN,
                           t \in {None} \cup {Some(s) : s \in SuggestedTitles}}

\* ------------------------------------------------------- Boundary Refiner

\* Mutant of AfterValidation: a suggested title is taken whatever the verdict.
AfterValidationAnyVerdict(chapter, resp) ==
    IF resp.ok /\ resp.suggested_title # None
    THEN [chapter EXCEPT !.title = resp.suggested_title[1]]
    ELSE chapter

\* Pass A on one chapter: the title is replaced when the call succeeded, the
\* response is valid and it carries a title.
AfterValidation(chapter, resp) ==
    IF resp.ok
    THEN IF resp.is_valid
         THEN IF resp.suggested_title # None
              THEN [chapter EXCEPT !.title = resp.suggested_title[1]]
              ELSE chapter
         ELSE chapter
    ELSE chapter

\* The separator pushed between the contents of two merged chapters.
MergeSeparator == <<LF, LF>>

\* Mutant of MergeAt: the content and end_pos are merged, but chapters[i + 1]
\* is not removed.
MergeAtKeepsNext(chs, i) ==
    LET next_chapter == chs[i + 2]
        merged == [chs[i + 1] EXCEPT
                      !.content = @ \o MergeSeparator \o next_chapter.content,
                      !.end_pos = next_chapter.end_pos]
    IN  SubSeq(chs, 1, i) \o <<merged>> \o SubSeq(chs, i + 2, Len(chs))

\* Pass B's merge at cursor i (0-based): chapters[i + 1] is removed, its
\* content appended to chapters[i] after the separator, and chapters[i] ends
\* where it ended.
MergeAt(chs, i) ==
    LET next_chapter == chs[i + 2]
        merged == [chs[i + 1] EXCEPT
                      !.content = @ \o MergeSeparator \o next_chapter.content,
                      !.end_pos = next_chapter.end_pos]
    IN  SubSeq(chs, 1, i) \o <<merged>> \o SubSeq(chs, i + 3, Len(chs))

\* Mutant of MergesOn: a failed call merges like an invalid verdict.
MergesOnFailure(resp) == ~resp.ok \/ ~resp.is_valid

\* Whether Pass B merges on a response: only on a successful call that
\* reports the boundary invalid.
MergesOn(resp) == resp.ok /\ ~resp.is_valid

\* How a pair check ended: the call failed, or it judged the boundary valid
\* or invalid.
Outcome(resp) ==
    IF ~resp.ok THEN "failed" ELSE IF resp.is_valid THEN "valid" ELSE "invalid"

\* Mutant of CursorAfter: the cursor never advances.
CursorStuck(cursor, resp) == cursor

\* Mutant of CursorAfter: the cursor advances after a merge too.
CursorAlwaysAdvances(cursor, resp) == cursor + 1

\* The cursor after one iteration of Pass B.
CursorAfter(cursor, resp) == IF MergesOn(resp) THEN cursor ELSE cursor + 1

\* ------------------------------------------------------------- documents

\* Documents are built from at most MaxBlocks of these blocks: a Markdown
\* heading with a body, a heading alone, a plain line, a CJK heading with a
\* body in a "\r\n" text, and a second-level heading with a padded body.
MaxBlocks == 3
Blocks ==
    { <<"#", " ", "a", LF, "b", LF>>,
      <<"#", " ", "a", LF>>,
      <<"b", LF>>,
      <<DI, "1", ZHANG, CR, LF, "b", CR, LF>>,
      <<"#", "#", " ", "a", LF, LF, " ", "b", " ", LF>> }

RECURSIVE Flatten(_)
Flatten(ss) == IF ss = <<>> THEN <<>> ELSE Head(ss) \o Flatten(Tail(ss))

Documents == {Flatten(bs) : bs \in UNION {[1..n -> Blocks] : n \in 0..MaxBlocks}}

\* Short texts over a few characters, at most MaxChars long.
MaxChars == 5
ShortAlphabet == {"#", " ", "a", "1", LF, CR, DI, ZHANG}
ShortTexts == UNION {[1..n -> ShortAlphabet] : n \in 0..MaxChars}

\* ---------------------------------------------------------------- state

VARIABLES
    text,               \* the document given to process_text
    pc,                 \* "start", "pass_a", "pass_b", "done" or "panic"
    line_positions,     \* (line_start_pos, line_end_pos) of every line
    chapter_positions,  \* the markers found by the scanning loop
    segmented,          \* what identify_chapters_by_regex returned
    chapters,           \* the chapter list being refined
    next_chapter,       \* Pass A: 1-based index of the next chapter to validate
    i,                  \* Pass B: the cursor
    call,               \* the last validator call: operation, arguments, result
    all_failed,         \* every validator call so far returned Err
    pair_results        \* the outcome of every pair check so far, in order

vars == <<text, pc, line_positions, chapter_positions, segmented, chapters,
          next_chapter, i, call, all_failed, pair_results>>

NoCall == [op |-> "none", args |-> <<>>, resp |-> Err]

InitRest ==
    /\ line_positions = <<>>
    /\ chapter_positions = <<>>
    /\ segmented = <<>>
    /\ chapters = <<>>
    /\ next_chapter = 1
    /\ i = 0
    /\ call = NoCall
    /\ all_failed = TRUE
    /\ pair_results = <<>>

Init == text \in Documents /\ pc = "start" /\ InitRest

\* process_text, step 1: identify_chapters_by_regex(text).
Identify ==
    /\ pc = "start"
    /\ LET r == IdentifyChaptersByRegex(text)
       IN  /\ pc' = IF r.panic THEN "panic" ELSE "pass_a"
           /\ chapters' = r.chapters
           /\ segmented' = r.chapters
    /\ line_positions' = LinePositions(Lines(text))
    /\ chapter_positions' = ChapterPositions(Lines(text))
    /\ UNCHANGED <<text, next_chapter, i, call, all_failed, pair_results>>

\* Pass A, one iteration: validate_chapter on the next chapter.
ValidateChapter ==
    /\ pc = "pass_a"
    /\ next_chapter <= Len(chapters)
    /\ \E resp \in Responses :
          /\ chapters' = [chapters EXCEPT
                             ![next_chapter] = AfterValidation(@, resp)]
          /\ call' = [op |-> "validate_chapter",
                      args |-> <<chapters[next_chapter].content>>,
                      resp |-> resp]
          /\ all_failed' = (all_failed /\ ~resp.ok)
    /\ next_chapter' = next_chapter + 1
    /\ UNCHANGED <<text, pc, line_positions, chapter_positions, segmented, i,
                   pair_results>>

\* Pass A is over: let mut i = 0.
StartSweep ==
    /\ pc = "pass_a"
    /\ next_chapter > Len(chapters)
    /\ pc' = "pass_b"
    /\ i' = 0
    /\ UNCHANGED <<text, line_positions, chapter_positions, segmented, chapters,
                   next_chapter, call, all_failed, pair_results>>

\* Pass B, one iteration of `while i < chapters.len() - 1`.  On an empty list
\* the unsigned subtraction underflows: a build with overflow checks panics
\* there, a build without wraps to usize::MAX, enters the loop and panics on
\* chapters[0]; the thread panics in either build.
CompareAdjacent ==
    /\ pc = "pass_b"
    /\ IF Len(chapters) = 0
       THEN /\ pc' = "panic"
            /\ UNCHANGED <<chapters, i, call, all_failed, pair_results>>
       ELSE /\ i < Len(chapters) - 1
            /\ \E resp \in Responses :
                  /\ chapters' = IF MergesOn(resp) THEN MergeAt(chapters, i)
                                                   ELSE chapters
                  /\ i' = CursorAfter(i, resp)
                  /\ call' = [op |-> "compare_adjacent_chapters",
                              args |-> <<chapters[i + 1].content,
                                         chapters[i + 2].content>>,
                              resp |-> resp]
                  /\ all_failed' = (all_failed /\ ~resp.ok)
                  /\ pair_results' = Append(pair_results, Outcome(resp))
            /\ pc' = pc
    /\ UNCHANGED <<text, line_positions, chapter_positions, segmented, next_chapter>>

\* Pass B is over: chapters.retain(|_| true) keeps every chapter, and the list
\* is returned.
FinishSweep ==
    /\ pc = "pass_b"
    /\ Len(chapters) >= 1
    /\ ~(i < Len(chapters) - 1)
    /\ pc' = "done"
    /\ UNCHANGED <<text, line_positions, chapter_positions, segmented, chapters,
                   next_chapter, i, call, all_failed, pair_results>>

Next == Identify \/ ValidateChapter \/ StartSweep \/ CompareAdjacent \/ FinishSweep

\* process_text on the documents built from blocks.
Spec == Init /\ [][Next]_vars

\* identify_chapters_by_regex on every short text.
SegInit == text \in ShortTexts /\ pc = "start" /\ InitRest
SegNext == Identify
SegSpec == SegInit /\ [][SegNext]_vars

\* ------------------------------------------------------------- the claims

\* No line of the text matches a heading pattern.
NoLineMatches(t) == \A k \in 1..Len(Lines(t)) : FirstMatch(Lines(t)[k]) = 0

\* C1: for every document in which no line matches any heading pattern,
\* identify_chapters_by_regex returns exactly one chapter, titled
\* "Complete Text", whose content is the entire document, untrimmed, with
\* start_pos = 0 and end_pos = the document's byte length.
C1_NoMarkerWholeDocument ==
    (pc # "start" /\ NoLineMatches(text)) =>
        /\ pc = "pass_a"
        /\ Len(segmented) = 1
        /\ segmented[1].title = CompleteText
        /\ segmented[1].content = text
        /\ segmented[1].start_pos = 0
        /\ segmented[1].end_pos = ByteLen(text)

\* C1's case: a text with '#', a newline and whitespace at an end, none of
\* whose lines is a heading, has been segmented.
C1_Witness ==
    /\ pc = "pass_a"
    /\ NoLineMatches(text)
    /\ \E k \in 1..Len(text) : text[k] = "#"
    /\ \E k \in 1..Len(text) : text[k] = LF
    /\ Len(text) >= 3 /\ IsWhitespace(text[Len(text)])

\* C2: the chapter list is ordered and non-overlapping, for any two chapters
\* a < b, chapters[a].end_pos <= chapters[b].start_pos: as the Segmenter
\* returns it, after every step of Pass A and Pass B, and in the final list.
C2_OrderedNonOverlapping ==
    /\ \A a, b \in 1..Len(chapters) :
          a < b => chapters[a].end_pos <= chapters[b].start_pos
    /\ \A a, b \in 1..Len(segmented) :
          a < b => segmented[a].end_pos <= segmented[b].start_pos

\* C2's case: a final list of two chapters, the first one merged from two.
C2_Witness ==
    /\ pc = "done"
    /\ Len(segmented) = 3
    /\ Len(chapters) = 2
    /\ pair_results = <<"invalid", "valid">>

\* C3: no chapter of the final list has content that is empty after
\* trimming, for every document, the empty one included.
C3_NoEmptyContent ==
    pc = "done" => \A c \in 1..Len(chapters) : Trim(chapters[c].content) # <<>>

\* The character indices of the newlines of t, in order.
NewlineIndices(t) == OrderedSeq({j \in 1..Len(t) : t[j] = LF})

\* The number of lines of t: one per newline, and one more for what follows
\* the last newline, if anything does.
TrueLineCount(t) ==
    LET lfs == NewlineIndices(t)
    IN  IF t = <<>> THEN 0
        ELSE IF t[Len(t)] = LF THEN Len(lfs) ELSE Len(lfs) + 1

\* The byte offset of the first byte of line k of t: 0, or one past the
\* newline that ends line k - 1.
TrueLineStart(t, k) ==
    IF k = 1 THEN 0 ELSE ByteLen(SubSeq(t, 1, NewlineIndices(t)[k - 1]))

\* The byte offset one past the last byte of line k of t: the offset of the
\* newline that ends it, or the end of the text.
TrueLineEnd(t, k) ==
    IF k <= Len(NewlineIndices(t))
    THEN ByteLen(SubSeq(t, 1, NewlineIndices(t)[k] - 1))
    ELSE ByteLen(t)

\* The lines of t are separated by single line feeds: no "\r\n".
LineFeedOnly(t) == \A j \in 1..(Len(t) - 1) : ~(t[j] = CR /\ t[j + 1] = LF)

\* C4: for every document whose lines are separated by single line feeds and
\* every line k, the (line_start_pos, line_end_pos) the scanning loop computes
\* are the byte offsets of line k in the document (first byte, one past the
\* last), also when the line's text occurs earlier and when lines hold
\* multi-byte characters.
C4_LineOffsetsExact ==
    (pc # "start" /\ LineFeedOnly(text)) =>
        /\ Len(line_positions) = TrueLineCount(text)
        /\ \A k \in 1..Len(line_positions) :
              /\ line_positions[k].start = TrueLineStart(text, k)
              /\ line_positions[k].end = TrueLineEnd(text, k)

\* C4's case: a line-feed text has been scanned in which a line repeats an
\* earlier, non-empty line, after a line holding a multi-byte character.
C4_Witness ==
    /\ pc # "start"
    /\ LineFeedOnly(text)
    /\ \E j, m, k \in 1..Len(line_positions) :
          /\ j < m /\ m < k
          /\ Lines(text)[j] = Lines(text)[k]
          /\ Lines(text)[j] # <<>>
          /\ DI \in {Lines(text)[m][x] : x \in 1..Len(Lines(text)[m])}

\* process_text when every validator call returns, with a response or an
\* error: the refiner, which awaits one call after the other, always takes
\* its next step.
Refine == ValidateChapter \/ StartSweep \/ CompareAdjacent \/ FinishSweep
FairSpec == Spec /\ WF_vars(Refine)

\* One iteration of Pass B has run.
PairChecked == pc = "pass_b" /\ Len(pair_results') = Len(pair_results) + 1

\* C5: Pass B terminates and never increases the chapter count: an iteration
\* whose pair check reports invalid shortens the list by one and leaves the
\* cursor, any other iteration keeps the list's length and advances the
\* cursor by one, and the final length lies between 1 and the initial length.
C5_SweepTerminates ==
    /\ [][PairChecked =>
            IF call'.resp.ok /\ ~call'.resp.is_valid
            THEN Len(chapters') = Len(chapters) - 1 /\ i' = i
            ELSE Len(chapters') = Len(chapters) /\ i' = i + 1]_vars
    /\ [](pc = "done" => 1 <= Len(chapters) /\ Len(chapters) <= Len(segmented))
    /\ [](pc = "pass_b" => <>(pc = "done"))

\* C5's case: Pass B has ended after at least one merge and one advance.
C5_Witness ==
    /\ pc = "done"
    /\ \E a, b \in 1..Len(pair_results) :
          pair_results[a] = "invalid" /\ pair_results[b] = "failed"

\* C6: if every validator call fails, in Pass A and in Pass B, the list the
\* refiner returns is the Segmenter's output: the same chapters in the same
\* order, each with its title, content, start_pos and end_pos; the refiner
\* returns normally.
C6_FailOpen ==
    /\ (all_failed /\ pc \in {"pass_a", "pass_b", "done"}) => chapters = segmented
    /\ (all_failed /\ pc = "pass_b") => i = Len(pair_results)

\* C6's case: the refiner has returned from a list of three chapters after
\* three failed single checks and two failed pair checks.
C6_Witness ==
    /\ pc = "done"
    /\ all_failed
    /\ Len(segmented) = 3
    /\ pair_results = <<"failed", "failed">>

\* C7: every pair check is on (chapters[i], chapters[i+1]); when it reports
\* invalid, chapters[i].content becomes its old content, "\n\n" and the content
\* of chapters[i+1], chapters[i].end_pos becomes that of chapters[i+1],
\* chapters[i+1] is removed and the cursor stays, so that the next pair check
\* is on the merged chapter and its new neighbour.  For three chapters whose
\* first boundary only is judged invalid, two chapters remain, and the second
\* pair check compared the merged chapter with the third.
C7_MergeStep ==
    /\ [][PairChecked =>
            /\ call'.op = "compare_adjacent_chapters"
            /\ call'.args = <<chapters[i + 1].content, chapters[i + 2].content>>
            /\ (call'.resp.ok /\ ~call'.resp.is_valid) =>
                  /\ i' = i
                  /\ Len(chapters') = Len(chapters) - 1
                  /\ chapters'[i + 1].content =
                        chapters[i + 1].content \o <<LF, LF>> \o chapters[i + 2].content
                  /\ chapters'[i + 1].end_pos = chapters[i + 2].end_pos
                  /\ \A j \in 1..i : chapters'[j] = chapters[j]
                  /\ \A j \in (i + 2)..Len(chapters') : chapters'[j] = chapters[j + 1]]_vars
    /\ []((/\ pc = "done"
           /\ Len(segmented) = 3
           /\ pair_results # <<>>
           /\ pair_results[1] = "invalid"
           /\ \A j \in 2..Len(pair_results) : pair_results[j] # "invalid") =>
              /\ Len(chapters) = 2
              /\ Len(pair_results) = 2
              /\ chapters[1].content =
                    segmented[1].content \o <<LF, LF>> \o segmented[2].content
              /\ chapters[1].end_pos = segmented[2].end_pos
              /\ chapters[2].content = segmented[3].content
              /\ call.args = <<chapters[1].content, segmented[3].content>>)

\* C7's case: three chapters, the first boundary judged invalid and the
\* second, checked on the merged chapter, judged valid.
C7_Witness ==
    /\ pc = "done"
    /\ Len(segmented) = 3
    /\ pair_results = <<"invalid", "valid">>
    /\ Len(chapters[1].content) > Len(segmented[1].content)

\* ---------------------------------------------------- the refiner alone

\* Chapter lists given to validate_chapters_with_llm directly: the empty list
\* and the lists of at most MaxChapters chapters that the Segmenter returns
\* for "# a\n<content>\n" repeated.
MaxChapters == 3
ChapterLists ==
    UNION {[1..n -> {<<"a">>, <<"b">>}] : n \in 0..MaxChapters}
ChapterListOf(contents) ==
    [j \in 1..Len(contents) |->
        [title |-> ChapterPrefix \o <<"a">>, content |-> contents[j],
         start_pos |-> 6 * (j - 1) + 4, end_pos |-> 6 * j]]

RefinerInit ==
    /\ \E contents \in ChapterLists :
          /\ chapters = ChapterListOf(contents)
          /\ segmented = ChapterListOf(contents)
    /\ text = <<>>
    /\ pc = "pass_a"
    /\ line_positions = <<>>
    /\ chapter_positions = <<>>
    /\ next_chapter = 1
    /\ i = 0
    /\ call = NoCall
    /\ all_failed = TRUE
    /\ pair_results = <<>>
RefinerNext == ValidateChapter \/ StartSweep \/ CompareAdjacent \/ FinishSweep
RefinerSpec == RefinerInit /\ [][RefinerNext]_vars

\* C8: when the list given to the refiner has 0 or 1 entries, Pass B is a
\* no-op: no pair check is issued, the list keeps its entries, and the loop
\* bound length - 1 does not underflow, so nothing panics, also for the empty
\* list.
C8_ShortListNoOp ==
    Len(segmented) <= 1 =>
        /\ pc # "panic"
        /\ pair_results = <<>>
        /\ Len(chapters) = Len(segmented)
        /\ \A j \in 1..Len(chapters) :
              /\ chapters[j].content = segmented[j].content
              /\ chapters[j].start_pos = segmented[j].start_pos
              /\ chapters[j].end_pos = segmented[j].end_pos

\* C8 for a list of one entry, which is what holds.
C8_SingletonNoOp ==
    Len(segmented) = 1 =>
        /\ pc # "panic"
        /\ pair_results = <<>>
        /\ Len(chapters) = 1
        /\ chapters[1].content = segmented[1].content

\* The byte offset of the first byte after line k of t and the one line
\* separator ("\n" or "\r\n") that ends it; the end of the text when no
\* separator follows the line.
TrueAfterLine(t, k) ==
    IF k <= Len(NewlineIndices(t))
    THEN ByteLen(SubSeq(t, 1, NewlineIndices(t)[k]))
    ELSE ByteLen(t)

\* The text of t from the character that starts at byte offset from up to the
\* character that starts at byte offset to.
TextBetween(t, from, to) ==
    SubSeq(t, CharIndexAt(t, from), CharIndexAt(t, to) - 1)

\* The chapter is the one the span rule gives for the m-th marker.
FollowsSpanRule(chapter, m) ==
    LET from == TrueAfterLine(text, chapter_positions[m].line)
        to   == IF m < Len(chapter_positions)
                THEN TrueLineStart(text, chapter_positions[m + 1].line)
                ELSE ByteLen(text)
    IN  /\ chapter.title = chapter_positions[m].title
        /\ chapter.start_pos = from
        /\ chapter.end_pos = to
        /\ chapter.content = Trim(TextBetween(text, from, to))

\* Every chapter emitted for a marker follows the span rule.
SpanRuleHolds ==
    \A c \in 1..Len(segmented) :
        segmented[c].title # CompleteText =>
            \E m \in 1..Len(chapter_positions) : FollowsSpanRule(segmented[c], m)

\* C9: every chapter emitted for a marker starts at the first byte after the
\* marker's line with one line separator skipped, "\n" or "\r\n" as a unit,
\* also in "\r\n" documents; it ends at the line start of the next marker, or
\* at the end of the document for the last marker; its content is the trimmed
\* text between the two offsets, which holds no part of a heading line.
C9_SpanRule == pc \in {"pass_a", "pass_b", "done"} => SpanRuleHolds

\* C9 on the documents that hold no "\r\n", where it holds.
SpanRuleOnLineFeedTexts ==
    (pc \in {"pass_a", "pass_b", "done"} /\ LineFeedOnly(text)) => SpanRuleHolds

\* One iteration of Pass A has run.
ChapterValidated == pc = "pass_a" /\ next_chapter' = next_chapter + 1

\* C10: Pass A replaces a chapter's title by the suggested title exactly when
\* the single-block check succeeds with is_valid and a suggested title; on an
\* invalid verdict, a missing title or a failed call the title is unchanged.
\* Pass A changes no content, start_pos or end_pos, and neither the number
\* nor the order of the chapters.
C10_PassAFrame ==
    [][ChapterValidated =>
          LET k == next_chapter
              r == call'.resp
          IN  /\ call'.op = "validate_chapter"
              /\ Len(chapters') = Len(chapters)
              /\ \A j \in 1..Len(chapters) : j # k => chapters'[j] = chapters[j]
              /\ chapters'[k].content = chapters[k].content
              /\ chapters'[k].start_pos = chapters[k].start_pos
              /\ chapters'[k].end_pos = chapters[k].end_pos
              /\ chapters'[k].title =
                    IF r.ok /\ r.is_valid /\ r.suggested_title # <<>>
                    THEN r.suggested_title[1]
                    ELSE chapters[k].title]_vars

\* C10's case: the second of three chapters has just been given the
\* suggested title, after the first kept its own on an invalid verdict that
\* suggested one.
C10_Witness ==
    /\ pc = "pass_a"
    /\ Len(chapters) = 3
    /\ next_chapter = 3
    /\ call.op = "validate_chapter"
    /\ call.resp.ok /\ call.resp.is_valid /\ call.resp.suggested_title = <<(<<"T">>)>>
    /\ chapters[2].title = <<"T">>
    /\ chapters[1].title = segmented[1].title
    /\ chapters[2].title # segmented[2].title

\* ------------------------------------------------------- title derivation

\* The patterns, of all twenty, that match the trimmed line.
MatchingPatterns(line) ==
    {p \in 1..NumPatterns : Captures(p, Trim(line)).matched}

\* The lines of t (1-based) that match at least one pattern, in order.
MatchingLines(t) ==
    OrderedSeq({k \in 1..Len(Lines(t)) : MatchingPatterns(Lines(t)[k]) # {}})

\* The title rule on the capture groups g of a match of the line.
TitleByRule(line, g) ==
    IF Len(g) >= 2 /\ Trim(g[2]) # <<>>
    THEN Trim(g[2])
    ELSE IF Len(g) >= 1 THEN ChapterPrefix \o Trim(g[1]) ELSE Trim(line)

\* C11: every line that matches at least one pattern yields exactly one
\* marker, in line order, and its title comes from the first pattern in
\* priority order that matches, whatever later patterns match: the trimmed
\* second group when there is one and it is not empty, else "Chapter " and the
\* trimmed first group, else the trimmed line; the title is never empty.
C11_TitleOfFirstMatch ==
    pc # "start" =>
        LET hits == MatchingLines(text)
        IN  /\ Len(chapter_positions) = Len(hits)
            /\ \A m \in 1..Len(hits) :
                  LET line  == Lines(text)[hits[m]]
                      first == SetMin(MatchingPatterns(line))
                  IN  /\ chapter_positions[m].line = hits[m]
                      /\ chapter_positions[m].title =
                            TitleByRule(line, Captures(first, Trim(line)).groups)
                      /\ chapter_positions[m].title # <<>>

\* C11's case: a scanned text with a line that two patterns match, whose
\* groups differ, and whose marker has the title of the earlier pattern.
C11_Witness ==
    /\ pc # "start"
    /\ \E m \in 1..Len(chapter_positions) :
          LET line == Lines(text)[chapter_positions[m].line]
              ps   == MatchingPatterns(line)
          IN  /\ Cardinality(ps) >= 2
              /\ TitleByRule(line, Captures(SetMin(ps), Trim(line)).groups)
                    # TitleByRule(line, Captures(SetMax(ps), Trim(line)).groups)
              /\ chapter_positions[m].title =
                    TitleByRule(line, Captures(SetMin(ps), Trim(line)).groups)

\* ------------------------------------------------------ degenerate spans

\* Documents of at most MaxParts lines, each a Markdown heading, a CJK
\* heading, an empty line, a line of whitespace or a line of body text.
MaxParts == 4
Parts ==
    { <<"#", " ", "a", LF>>,
      <<DI, "1", ZHANG, LF>>,
      <<LF>>,
      <<" ", LF>>,
      <<"b", LF>> }
LineDocuments == {Flatten(ps) : ps \in UNION {[1..n -> Parts] : n \in 0..MaxParts}}

\* identify_chapters_by_regex on the documents built from lines.
LineInit == text \in LineDocuments /\ pc = "start" /\ InitRest
LineNext == Identify
LineSpec == LineInit /\ [][LineNext]_vars

\* The span of the m-th marker: (content_start, content_end).
SpanOf(m) ==
    [from |-> ContentStart(text, chapter_positions[m].end),
     to   |-> ContentEnd(text, chapter_positions, m)]

\* The m-th marker's span is empty, or holds whitespace only.
SpanBlank(m) ==
    \/ SpanOf(m).to <= SpanOf(m).from
    \/ \A j \in CharIndexAt(text, SpanOf(m).from)..(CharIndexAt(text, SpanOf(m).to) - 1) :
          IsWhitespace(text[j])

\* The markers whose span is not blank, in marker order.
KeptMarkers == OrderedSeq({m \in 1..Len(chapter_positions) : ~SpanBlank(m)})

\* C12: a marker whose span is empty or whitespace-only produces no chapter,
\* so the chapters are those of the other markers, in marker order, and at
\* most as many as the markers; when at least one marker was found and every
\* marker's span is blank, the result is exactly one chapter, titled
\* "Complete Text", with the whole document as content, start_pos = 0 and
\* end_pos = the document's length.
C12_DegenerateSpans ==
    (pc = "pass_a" /\ chapter_positions # <<>>) =>
        IF KeptMarkers = <<>>
        THEN segmented = <<[title |-> CompleteText, content |-> text,
                            start_pos |-> 0, end_pos |-> ByteLen(text)]>>
        ELSE /\ Len(segmented) = Len(KeptMarkers)
             /\ Len(segmented) <= Len(chapter_positions)
             /\ \A c \in 1..Len(segmented) :
                   /\ segmented[c].title = chapter_positions[KeptMarkers[c]].title
                   /\ segmented[c].start_pos = SpanOf(KeptMarkers[c]).from
                   /\ segmented[c].end_pos = SpanOf(KeptMarkers[c]).to
                   /\ Trim(segmented[c].content) # <<>>

\* C12's case: of two markers the first has a span of whitespace and the
\* second a body; one chapter is returned, with the second marker's title.
C12_Witness ==
    /\ pc = "pass_a"
    /\ Len(chapter_positions) = 2
    /\ SpanOf(1).to > SpanOf(1).from /\ SpanBlank(1)
    /\ ~SpanBlank(2)
    /\ Len(segmented) = 1
    /\ segmented[1].title = chapter_positions[2].title
    /\ chapter_positions[1].title # chapter_positions[2].title

\* C12's other case: two markers, both with a blank span, and the fallback
\* chapter returned.
AllMarkersDropped ==
    /\ pc = "pass_a"
    /\ Len(chapter_positions) = 2
    /\ KeptMarkers = <<>>
    /\ segmented[1].title = CompleteText

\* ------------------------------------------------ the list given to Pass B

\* C13: identify_chapters_by_regex returns a non-empty chapter list for every
\* document, the empty one included, so in process_text the list Pass B works
\* on is never empty, and the loop bound chapters.len() - 1 is never
\* evaluated on an empty list: no step of Pass B panics.
C13_SegmentedNonEmpty ==
    /\ [](pc \in {"pass_a", "pass_b", "done"} =>
             Len(segmented) >= 1 /\ Len(chapters) >= 1)
    /\ [][pc = "pass_b" => pc' # "panic"]_vars

\* C13's case: the empty document has gone through Pass B as a list of one
\* chapter, without a pair check.
C13_Witness ==
    /\ pc = "done"
    /\ text = <<>>
    /\ Len(segmented) = 1
    /\ Len(chapters) = 1
    /\ pair_results = <<>>

\* C13's other case: a document whose markers were all dropped has gone
\* through Pass B as the single fallback chapter.
DroppedMarkersRefined ==
    /\ pc = "done"
    /\ chapter_positions # <<>>
    /\ segmented[1].title = CompleteText
    /\ Len(chapters) = 1

\* ---------------------------------------------- the number of pair checks

\* The number of pair checks so far that reported the boundary invalid.
InvalidCount ==
    Cardinality({k \in 1..Len(pair_results) : pair_results[k] = "invalid"})

\* C14: for an initial list of n >= 1 chapters, every iteration of Pass B
\* either merges (the list loses one chapter) or advances the cursor by one,
\* never both and never neither; Pass B issues exactly n - 1 pair checks
\* whatever the verdicts and failures are, and the final list has n minus the
\* number of invalid verdicts chapters.
C14_PairCheckCount ==
    /\ [][PairChecked =>
            /\ Len(chapters') \in {Len(chapters), Len(chapters) - 1}
            /\ i' \in {i, i + 1}
            /\ (Len(chapters') = Len(chapters) - 1) # (i' = i + 1)]_vars
    /\ []((pc = "pass_b" /\ Len(segmented) >= 1) =>
             /\ Len(chapters) = Len(segmented) - InvalidCount
             /\ Len(pair_results) = i + InvalidCount
             /\ Len(pair_results) <= Len(segmented) - 1)
    /\ []((pc = "done" /\ Len(segmented) >= 1) =>
             /\ Len(pair_results) = Len(segmented) - 1
             /\ Len(chapters) = Len(segmented) - InvalidCount)

\* C14's case: Pass B has ended on three chapters after a valid verdict and
\* then an invalid one: two pair checks, two chapters.
C14_Witness ==
    /\ pc = "done"
    /\ Len(segmented) = 3
    /\ pair_results = <<"valid", "invalid">>
    /\ Len(chapters) = 2

=============================================================================
